---- MODULE Spec2Model ----
(***************************************************************************)
(* Model of the jail lifecycle engine of AGI (jail.hpp): JailManager with  *)
(* its lifecycle operations create/start/stop/destroy/execute and its read *)
(* accessors, called by concurrent threads, over a small model of the      *)
(* operating system (the jail's directory tree, the kernel mount table,    *)
(* the forked service processes and the system clock).                     *)
(***************************************************************************)
EXTENDS Naturals, Integers, Sequences, FiniteSets, TLC

\* ------------------------------------------------------------------ bounds

\* Process ids the operating system can hand out: fork() fails when all are
\* taken by processes that were not reaped.
MaxPid == 2

\* Highest value of the system clock; the time_point a manager is
\* constructed with is 0.
MaxClock == 2

\* start() appends four records per call and never removes any: the number
\* of start() calls that may pile their records onto the list.
MaxStacked == 2

\* mount() calls of one start() that fail on a target nothing is mounted on.
MaxMountFailures == 1

\* Records of one unmountAll whose umount() reports EBUSY.
MaxBusyRecords == 1

\* ------------------------------------------------------- program constants

\* unmountAll: int retries = 3
UmountRetries == 3

\* pid_t sshd_pid_ = -1
NoPid == -1

Threads == {"t1", "t2"}

\* The threads that call into the manager; the others make no call.
Running == {"t1"}

\* Environment names of the configuration.
Names == {"a", "b"}

\* enum class JailStatus
JailStatus == {"STOPPED", "STARTING", "RUNNING", "STOPPING", "ERROR"}

\* jail_path_ = "/var/lib/agi/jails/" + config.name, as path segments.
JailPath(j) == <<"var", "lib", "agi", "jails", j>>

\* mountFilesystems: the four mount calls, in the order the code makes them.
FixedMounts(j) ==
    << [source |-> "proc",   target |-> Append(JailPath(j), "proc"),
        type |-> "proc",   options |-> ""],
       [source |-> "sysfs",  target |-> Append(JailPath(j), "sys"),
        type |-> "sysfs",  options |-> ""],
       [source |-> "devpts", target |-> Append(JailPath(j), "dev/pts"),
        type |-> "devpts", options |-> "gid=5,mode=620"],
       [source |-> "/tmp",   target |-> Append(JailPath(j), "tmp"),
        type |-> "none",   options |-> "bind"] >>

NumFixed == Len(FixedMounts("a"))

AllTargets == {FixedMounts(j)[i].target : j \in Names, i \in 1..NumFixed}

\* ----------------------------------------------------------- configuration

\* The characters of a root path; a path is a sequence of them.
PathChars == {"/", ".", "a"}

\* Longest root path of a configuration.
MaxPathLen == 4

Paths == UNION {[1..n -> PathChars] : n \in 0..MaxPathLen}

\* validateConfig: the bounds of the port range.
MinPort == 1
MaxPort == 65535

\* Values of ssh.port (an int): the bounds of the range, their neighbours
\* and the defaults.
PortValues == {-1, MinPort - 1, MinPort, 22, 2201, MaxPort, MaxPort + 1}

\* Values of the name of a configuration.
ConfigNames == {"", "a", "b"}

\* Longest list of mounts of a configuration.
MaxConfigMounts == 2

\* struct MountPoint: mounts a configuration may ask for, the target given
\* relative to the jail's root.
MountPoints ==
    { [source |-> "/srv/data", target |-> "data", type |-> "none",
       flags |-> 0, read_only |-> FALSE],
      [source |-> "/srv/www", target |-> "www", type |-> "none",
       flags |-> 0, read_only |-> TRUE] }

MountLists == UNION {[1..n -> MountPoints] : n \in 0..MaxConfigMounts}

\* EnvironmentConfig: the fields the manager reads, and the mounts.
Configs == [name : ConfigNames, port : PortValues, root_path : Paths,
            mounts : MountLists]

\* config.ssh.port of each environment: the default development
\* environment's, and SshConfig's default.
SshPort == [j \in Names |-> IF j = "a" THEN 2201 ELSE 22]

\* The configuration of environment j as the pool's caller builds it:
\* root_path = "" is EnvironmentConfig's default.
DefaultConfig(j) == [name |-> j, port |-> SshPort[j], root_path |-> <<>>,
                     mounts |-> <<>>]

\* ------------------------------------------------------------------- state

VARIABLES
    \* JailManager fields, one manager per environment name
    status_,          \* std::atomic<JailStatus> status_
    sshd_pid_,        \* pid_t sshd_pid_
    start_time_,      \* time_point start_time_
    active_mounts_,   \* std::vector<MountInfo> active_mounts_
    mutex_,           \* std::mutex mutex_: the owning thread, or "free"
    \* JailManagerPool
    jails_,           \* the names the map holds a manager for
    pool_mutex_,      \* the pool's std::mutex mutex_: its owner, or "free"
    config_,          \* const EnvironmentConfig* config_ of each manager
    \* operating system
    fs_root,          \* whether jail_path_ exists on disk
    kmounts,          \* kernel mount table: the targets something is mounted on
    alive,            \* forked service processes that were not waited for
    clock,            \* system_clock::now()
    umount_log,       \* targets of the umount() calls of the running or
                      \* last unmountAll of each jail, repeats collapsed
    umount_res,       \* for each of these targets: how many of the calls
                      \* reported EBUSY, and whether the last one returned 0
    \* threads
    pc,               \* position of each thread in the operation it runs
    tj,               \* the jail the thread's operation is called on
    op,               \* the public method the thread is in
    caller,           \* the frame that called stop(): none, destroy
    um_it,            \* unmountAll: the reverse iterator (1-based index)
    um_retries,       \* unmountAll: retries
    ret,              \* the value the operation returns
    pre,              \* the manager's fields when the operation was entered
    os_fail           \* whether a system call of the operation has failed

jailVars == <<status_, sshd_pid_, start_time_, active_mounts_, mutex_, jails_,
              pool_mutex_, config_>>
osVars == <<fs_root, kmounts, alive, clock, umount_log, umount_res>>
threadVars == <<pc, tj, op, caller, um_it, um_retries, ret, pre, os_fail>>
vars == <<jailVars, osVars, threadVars>>

NoRet == "none"
NoPre == [status |-> "STOPPED", pid |-> NoPid, mounts |-> <<>>, start |-> 0,
          kmounts |-> {}, alive |-> {}, fs_root |-> FALSE]

\* The fields of manager j, as one record.
Fields(j) == [status |-> status_[j], pid |-> sshd_pid_[j],
              mounts |-> active_mounts_[j], start |-> start_time_[j]]

\* The fields of manager j with the operating system's state, as a method
\* finds them when it is entered.
Snapshot(j) == [status |-> status_[j], pid |-> sshd_pid_[j],
                mounts |-> active_mounts_[j], start |-> start_time_[j],
                kmounts |-> kmounts, alive |-> alive, fs_root |-> fs_root[j]]

\* JailManager(config): status_{STOPPED}, sshd_pid_ = -1, no mounts.
Init ==
    /\ status_ = [j \in Names |-> "STOPPED"]
    /\ sshd_pid_ = [j \in Names |-> NoPid]
    /\ start_time_ = [j \in Names |-> 0]
    /\ active_mounts_ = [j \in Names |-> <<>>]
    /\ mutex_ = [j \in Names |-> "free"]
    /\ jails_ = {"a"}
    /\ pool_mutex_ = "free"
    /\ config_ = [j \in Names |-> DefaultConfig(j)]
    /\ fs_root \in {f \in [Names -> BOOLEAN] : \A j \in Names \ {"a"} : ~f[j]}
    /\ kmounts = {}
    /\ alive = {}
    /\ clock = 1
    /\ umount_log = [j \in Names |-> <<>>]
    /\ umount_res = [j \in Names |-> <<>>]
    /\ pc = [t \in Threads |-> IF t \in Running THEN "idle" ELSE "off"]
    /\ tj = [t \in Threads |-> "a"]
    /\ op = [t \in Threads |-> "none"]
    /\ caller = [t \in Threads |-> "none"]
    /\ um_it = [t \in Threads |-> 0]
    /\ um_retries = [t \in Threads |-> 0]
    /\ ret = [t \in Threads |-> NoRet]
    /\ pre = [t \in Threads |-> NoPre]
    /\ os_fail = [t \in Threads |-> FALSE]

\* ------------------------------------------------------------ thread steps

Goto(t, l) == pc' = [pc EXCEPT ![t] = l]

\* A method without its lock_guard: the thread enters whoever owns the mutex.
CallNotLocked(t, j, m, first) ==
    /\ pc[t] = "idle"
    /\ j \in jails_
    /\ pre' = [pre EXCEPT ![t] = Snapshot(j)]
    /\ tj' = [tj EXCEPT ![t] = j]
    /\ op' = [op EXCEPT ![t] = m]
    /\ Goto(t, first)
    /\ UNCHANGED <<jailVars, osVars, caller, um_it, um_retries, ret, os_fail>>

\* A thread calls a method that starts with std::lock_guard lock(mutex_) on
\* a manager it got from the pool: it blocks while the mutex is owned, then
\* owns it and is at the method's first statement.
CallLocked(t, j, m, first) ==
    /\ pc[t] = "idle"
    /\ j \in jails_
    /\ mutex_[j] = "free"
    /\ mutex_' = [mutex_ EXCEPT ![j] = t]
    /\ pre' = [pre EXCEPT ![t] = Snapshot(j)]
    /\ tj' = [tj EXCEPT ![t] = j]
    /\ op' = [op EXCEPT ![t] = m]
    /\ Goto(t, first)
    /\ UNCHANGED <<status_, sshd_pid_, start_time_, active_mounts_, jails_, config_, pool_mutex_,
                   osVars, caller, um_it, um_retries, ret, os_fail>>

\* A thread calls a method that takes no lock.
CallUnlocked(t, j, m, first) ==
    /\ pc[t] = "idle"
    /\ j \in jails_
    /\ tj' = [tj EXCEPT ![t] = j]
    /\ op' = [op EXCEPT ![t] = m]
    /\ Goto(t, first)
    /\ UNCHANGED <<jailVars, osVars, caller, um_it, um_retries, ret, pre,
                   os_fail>>

\* A method that locks the mutex by hand and returns without unlocking it.
UnlockKeepsMutex(t) ==
    /\ pc[t] = "unlock"
    /\ umount_log' = [umount_log EXCEPT ![tj[t]] = <<>>]
    /\ umount_res' = [umount_res EXCEPT ![tj[t]] = <<>>]
    /\ Goto(t, "idle")
    /\ op' = [op EXCEPT ![t] = "none"]
    /\ ret' = [ret EXCEPT ![t] = NoRet]
    /\ pre' = [pre EXCEPT ![t] = NoPre]
    /\ os_fail' = [os_fail EXCEPT ![t] = FALSE]
    /\ UNCHANGED <<jailVars, fs_root, kmounts, alive, clock, tj, caller,
                   um_it, um_retries>>

\* The return of a method that holds the lock: the lock_guard's destructor
\* releases the mutex and the thread is back in its caller.
Unlock(t) ==
    /\ pc[t] = "unlock"
    /\ mutex_' = [mutex_ EXCEPT ![tj[t]] = "free"]
    /\ umount_log' = [umount_log EXCEPT ![tj[t]] = <<>>]
    /\ umount_res' = [umount_res EXCEPT ![tj[t]] = <<>>]
    /\ Goto(t, "idle")
    /\ op' = [op EXCEPT ![t] = "none"]
    /\ ret' = [ret EXCEPT ![t] = NoRet]
    /\ pre' = [pre EXCEPT ![t] = NoPre]
    /\ os_fail' = [os_fail EXCEPT ![t] = FALSE]
    /\ UNCHANGED <<status_, sshd_pid_, start_time_, active_mounts_, jails_, config_, pool_mutex_,
                   fs_root, kmounts, alive, clock, tj, caller, um_it,
                   um_retries>>

\* The return of a method that takes no lock.
Return(t) ==
    /\ pc[t] = "ret"
    /\ Goto(t, "idle")
    /\ op' = [op EXCEPT ![t] = "none"]
    /\ ret' = [ret EXCEPT ![t] = NoRet]
    /\ os_fail' = [os_fail EXCEPT ![t] = FALSE]
    /\ UNCHANGED <<jailVars, osVars, tj, caller, um_it, um_retries, pre>>

\* A system call of the operation thread t runs has failed, or none has in
\* this step.
OsFails(t) == os_fail' = [os_fail EXCEPT ![t] = TRUE]
OsOk == UNCHANGED os_fail

\* std::chrono::system_clock::now(): the clock is ahead of its last
\* reading, until it reaches MaxClock.
Now == clock
ClockAfterReading == IF clock < MaxClock THEN clock + 1 ELSE clock

\* ------------------------------------------------------------------- start

\* mount(2): ok[i] is the outcome of the i-th call of mountFilesystems. The
\* kernel refuses (EBUSY) to mount a filesystem on a target it is already
\* mounted on, and at most MaxMountFailures further calls fail.
MountOutcomes(j) ==
    {ok \in [1..NumFixed -> BOOLEAN] :
        /\ \A i \in 1..NumFixed :
              ok[i] => FixedMounts(j)[i].target \notin kmounts
        /\ Cardinality({i \in 1..NumFixed :
              ~ok[i] /\ FixedMounts(j)[i].target \notin kmounts})
             <= MaxMountFailures}

\* The kernel mount table after the calls.
KernelAfterMounts(j, ok) ==
    kmounts \cup {FixedMounts(j)[i].target : i \in {k \in 1..NumFixed : ok[k]}}

\* mountFilesystems: the result of mount() is not looked at, and addMountInfo
\* appends a record after every call.
RecordsAfterMounts(j, ok) == active_mounts_[j] \o FixedMounts(j)

\* fork(): the lowest free process id; it fails when all are taken (and may
\* fail at any time).
FreePids == (1..MaxPid) \ alive
ForkPid == CHOOSE p \in FreePids : \A q \in FreePids : p <= q

StartCall(t, j) == CallLocked(t, j, "start", "start_check")

\* start() without its first statement: a RUNNING jail is started again.
StartCheckNoShortCircuit(t) ==
    LET j == tj[t] IN
    /\ pc[t] = "start_check"
    /\ Len(active_mounts_[j]) < NumFixed * MaxStacked
    /\ status_' = [status_ EXCEPT ![j] = "STARTING"]
    /\ Goto(t, "start_mount")
    /\ UNCHANGED <<sshd_pid_, start_time_, active_mounts_, mutex_, jails_, config_, pool_mutex_,
                   osVars, tj, op, caller, um_it, um_retries, ret, pre, os_fail>>

\* if (status_ == RUNNING) return true;  status_ = STARTING;
StartCheck(t) ==
    LET j == tj[t] IN
    /\ pc[t] = "start_check"
    /\ IF status_[j] = "RUNNING"
       THEN /\ ret' = [ret EXCEPT ![t] = TRUE]
            /\ Goto(t, "unlock")
            /\ UNCHANGED status_
       ELSE /\ Len(active_mounts_[j]) < NumFixed * MaxStacked
            /\ status_' = [status_ EXCEPT ![j] = "STARTING"]
            /\ Goto(t, "start_mount")
            /\ UNCHANGED ret
    /\ UNCHANGED <<sshd_pid_, start_time_, active_mounts_, mutex_, jails_, config_, pool_mutex_,
                   osVars, tj, op, caller, um_it, um_retries, pre, os_fail>>

\* catch (const std::exception&): status_ = ERROR; return false;
StartFails(t) ==
    /\ status_' = [status_ EXCEPT ![tj[t]] = "ERROR"]
    /\ ret' = [ret EXCEPT ![t] = FALSE]
    /\ Goto(t, "unlock")

\* The existence check of jail_path_ (after status_ = STARTING), then
\* setResourceLimits and mountFilesystems.
StartMount(t) ==
    LET j == tj[t] IN
    /\ pc[t] = "start_mount"
    /\ \/ /\ ~fs_root[j]
          /\ StartFails(t)
          /\ OsOk
          /\ UNCHANGED <<active_mounts_, kmounts>>
       \/ /\ fs_root[j]
          /\ \E ok \in MountOutcomes(j) :
                /\ kmounts' = KernelAfterMounts(j, ok)
                /\ active_mounts_' =
                       [active_mounts_ EXCEPT ![j] = RecordsAfterMounts(j, ok)]
                /\ IF \A i \in 1..NumFixed : ok[i] THEN OsOk ELSE OsFails(t)
          /\ Goto(t, "start_sshd")
          /\ UNCHANGED <<status_, ret>>
    /\ UNCHANGED <<sshd_pid_, start_time_, mutex_, jails_, config_, pool_mutex_, fs_root, alive,
                   clock, umount_log, umount_res, tj, op, caller, um_it,
                   um_retries, pre>>

\* A startSshd whose failure unmounts and forgets what start() mounted.
StartSshdRollsBack(t) ==
    LET j == tj[t] IN
    /\ pc[t] = "start_sshd"
    /\ \/ /\ FreePids # {}
          /\ sshd_pid_' = [sshd_pid_ EXCEPT ![j] = ForkPid]
          /\ alive' = alive \cup {ForkPid}
          /\ Goto(t, "start_init")
          /\ OsOk
          /\ UNCHANGED <<status_, ret, active_mounts_, kmounts>>
       \/ /\ StartFails(t)
          /\ OsFails(t)
          /\ active_mounts_' = [active_mounts_ EXCEPT ![j] = <<>>]
          /\ kmounts' = kmounts \ {FixedMounts(j)[i].target : i \in 1..NumFixed}
          /\ UNCHANGED <<sshd_pid_, alive>>
    /\ UNCHANGED <<start_time_, mutex_, jails_, config_, pool_mutex_, fs_root,
                   clock, umount_log, umount_res, tj, op, caller, um_it,
                   um_retries, pre>>

\* startSshd: fork(); the parent stores the child's pid, or throws when
\* fork() fails.
StartSshd(t) ==
    LET j == tj[t] IN
    /\ pc[t] = "start_sshd"
    /\ \/ /\ FreePids # {}
          /\ sshd_pid_' = [sshd_pid_ EXCEPT ![j] = ForkPid]
          /\ alive' = alive \cup {ForkPid}
          /\ Goto(t, "start_init")
          /\ OsOk
          /\ UNCHANGED <<status_, ret>>
       \/ /\ StartFails(t)
          /\ OsFails(t)
          /\ UNCHANGED <<sshd_pid_, alive>>
    /\ UNCHANGED <<start_time_, active_mounts_, mutex_, jails_, config_, pool_mutex_, fs_root,
                   kmounts, clock, umount_log, umount_res, tj, op, caller,
                   um_it, um_retries, pre>>

\* A start() that sets RUNNING without recording the start time.
StartInitKeepsStartTime(t) ==
    LET j == tj[t] IN
    /\ pc[t] = "start_init"
    /\ \/ /\ status_' = [status_ EXCEPT ![j] = "RUNNING"]
          /\ ret' = [ret EXCEPT ![t] = TRUE]
          /\ Goto(t, "unlock")
          /\ OsOk
       \/ /\ StartFails(t)
          /\ OsFails(t)
    /\ UNCHANGED <<sshd_pid_, start_time_, active_mounts_, mutex_, jails_,
                   config_, pool_mutex_, osVars, tj, op, caller, um_it,
                   um_retries, pre>>

\* runInitScript, then status_ = RUNNING; start_time_ = now(); return true.
\* std::filesystem::exists(init_script) may throw filesystem_error.
StartInit(t) ==
    LET j == tj[t] IN
    /\ pc[t] = "start_init"
    /\ \/ /\ status_' = [status_ EXCEPT ![j] = "RUNNING"]
          /\ start_time_' = [start_time_ EXCEPT ![j] = Now]
          /\ clock' = ClockAfterReading
          /\ ret' = [ret EXCEPT ![t] = TRUE]
          /\ Goto(t, "unlock")
          /\ OsOk
       \/ /\ StartFails(t)
          /\ OsFails(t)
          /\ UNCHANGED <<start_time_, clock>>
    /\ UNCHANGED <<sshd_pid_, active_mounts_, mutex_, jails_, config_, pool_mutex_, fs_root,
                   kmounts, alive, umount_log, umount_res, tj, op, caller,
                   um_it, um_retries, pre>>

Start(t) ==
    \/ \E j \in Names : StartCall(t, j)
    \/ StartCheck(t)
    \/ StartMount(t)
    \/ StartSshd(t)
    \/ StartInit(t)

\* -------------------------------------------------------------- unmountAll

\* The call of unmountAll: it = active_mounts_.rbegin().
UnmountBegin(t) ==
    /\ um_it' = [um_it EXCEPT ![t] = Len(active_mounts_[tj[t]])]
    /\ um_retries' = [um_retries EXCEPT ![t] = UmountRetries]
    /\ umount_log' = [umount_log EXCEPT ![tj[t]] = <<>>]
    /\ umount_res' = [umount_res EXCEPT ![tj[t]] = <<>>]

\* ++it; int retries = 3;
NextRecord(t) ==
    /\ um_it' = [um_it EXCEPT ![t] = um_it[t] - 1]
    /\ um_retries' = [um_retries EXCEPT ![t] = UmountRetries]

\* The record under a forward iterator: begin() in place of rbegin().
UmountTargetForward(t) ==
    active_mounts_[tj[t]][Len(active_mounts_[tj[t]]) - um_it[t] + 1].target

\* it->target: the record under the reverse iterator.
UmountTarget(t) == active_mounts_[tj[t]][um_it[t]].target

\* The umount() calls made so far, a record's retries collapsed into its
\* first attempt.
LogAttempt(t, target) ==
    umount_log' = [umount_log EXCEPT ![tj[t]] =
        IF um_retries[t] = UmountRetries THEN Append(@, target) ELSE @]

\* What the calls on the record under the iterator came to: this call
\* reported EBUSY (busy = 1) or not, and returned 0 (ok) or not.
LogResult(t, busy, ok) ==
    umount_res' = [umount_res EXCEPT ![tj[t]] =
        IF um_retries[t] = UmountRetries
        THEN Append(@, [busy |-> busy, ok |-> ok])
        ELSE [@ EXCEPT ![Len(@)] = [busy |-> @.busy + busy, ok |-> ok]]]

\* umount(2) may report EBUSY on the record under the iterator: it did so
\* on the call before, or fewer than MaxBusyRecords records of this
\* unmountAll have reported it.
MayBeBusy(t) ==
    \/ um_retries[t] < UmountRetries
    \/ Cardinality({i \in 1..Len(umount_res[tj[t]]) :
                       umount_res[tj[t]][i].busy > 0}) < MaxBusyRecords

\* What unmountAll has logged for each record it is done with or at: the
\* DEBUG line after an umount() that returned 0, and nothing otherwise.
UnmountLogLines(j) ==
    [i \in 1..Len(umount_res[j]) |->
        IF umount_res[j][i].ok
        THEN <<"DEBUG", "Unmounting: ", umount_log[j][i]>>
        ELSE <<>>]

\* An unmountAll whose loop runs while retries >= 0: a fourth attempt
\* after the third EBUSY.
UnmountStepRetriesAgain(t, at, next) ==
    LET j == tj[t]
        target == UmountTarget(t)
    IN
    /\ pc[t] = at
    /\ um_it[t] <= Len(active_mounts_[j])
    /\ IF um_it[t] = 0
       THEN /\ active_mounts_' = [active_mounts_ EXCEPT ![j] = <<>>]
            /\ um_retries' = [um_retries EXCEPT ![t] = 0]
            /\ Goto(t, next)
            /\ OsOk
            /\ UNCHANGED <<kmounts, um_it, umount_log, umount_res>>
       ELSE /\ LogAttempt(t, target)
            /\ \/ /\ target \in kmounts              \* umount() == 0: break
                  /\ kmounts' = kmounts \ {target}
                  /\ NextRecord(t)
                  /\ LogResult(t, 0, TRUE)
                  /\ OsOk
               \/ /\ target \in kmounts              \* errno == EBUSY
                  /\ MayBeBusy(t)
                  /\ IF um_retries[t] - 1 >= 0
                     THEN /\ um_retries' =
                                 [um_retries EXCEPT ![t] = um_retries[t] - 1]
                          /\ UNCHANGED um_it
                     ELSE NextRecord(t)
                  /\ LogResult(t, 1, FALSE)
                  /\ OsFails(t)
                  /\ UNCHANGED kmounts
               \/ /\ target \notin kmounts           \* another errno: break
                  /\ NextRecord(t)
                  /\ LogResult(t, 0, FALSE)
                  /\ OsFails(t)
                  /\ UNCHANGED kmounts
            /\ UNCHANGED <<active_mounts_, pc>>
    /\ UNCHANGED <<status_, sshd_pid_, start_time_, mutex_, jails_, config_, pool_mutex_, fs_root,
                   alive, clock, tj, op, caller, ret, pre>>

\* One pass of the inner loop of unmountAll at position `at`: one umount()
\* call on the record under the iterator, or, at rend(), the clear() of the
\* list and the return to `next`. umount(2) succeeds or reports EBUSY on a
\* mounted target, and fails with EINVAL on a target with nothing mounted.
UnmountStep(t, at, next) ==
    LET j == tj[t]
        target == UmountTarget(t)
    IN
    /\ pc[t] = at
    /\ um_it[t] <= Len(active_mounts_[j])
    /\ IF um_it[t] = 0
       THEN /\ active_mounts_' = [active_mounts_ EXCEPT ![j] = <<>>]
            /\ um_retries' = [um_retries EXCEPT ![t] = 0]
            /\ Goto(t, next)
            /\ OsOk
            /\ UNCHANGED <<kmounts, um_it, umount_log, umount_res>>
       ELSE /\ LogAttempt(t, target)
            /\ \/ /\ target \in kmounts              \* umount() == 0: break
                  /\ kmounts' = kmounts \ {target}
                  /\ NextRecord(t)
                  /\ LogResult(t, 0, TRUE)
                  /\ OsOk
               \/ /\ target \in kmounts              \* errno == EBUSY
                  /\ MayBeBusy(t)
                  /\ IF um_retries[t] - 1 > 0
                     THEN /\ um_retries' =
                                 [um_retries EXCEPT ![t] = um_retries[t] - 1]
                          /\ UNCHANGED um_it
                     ELSE NextRecord(t)
                  /\ LogResult(t, 1, FALSE)
                  /\ OsFails(t)
                  /\ UNCHANGED kmounts
               \/ /\ target \notin kmounts           \* another errno: break
                  /\ NextRecord(t)
                  /\ LogResult(t, 0, FALSE)
                  /\ OsFails(t)
                  /\ UNCHANGED kmounts
            /\ UNCHANGED <<active_mounts_, pc>>
    /\ UNCHANGED <<status_, sshd_pid_, start_time_, mutex_, jails_, config_, pool_mutex_, fs_root,
                   alive, clock, tj, op, caller, ret, pre>>

\* -------------------------------------------------------------------- stop

StopCall(t, j) == CallLocked(t, j, "stop", "stop_check")

\* stop() returns r: to the outside caller, or into destroy() or
\* removeEnvironment(), which do not look at the result.
StopReturns(t, r) ==
    IF caller[t] = "destroy"
    THEN /\ Goto(t, "destroy_unmount")
         /\ caller' = [caller EXCEPT ![t] = "none"]
         /\ UNCHANGED ret
    ELSE IF caller[t] = "remove"
    THEN /\ Goto(t, "remove_stop_ret")
         /\ caller' = [caller EXCEPT ![t] = "none"]
         /\ UNCHANGED ret
    ELSE /\ Goto(t, "unlock")
         /\ ret' = [ret EXCEPT ![t] = r]
         /\ UNCHANGED caller

\* A stop() without its first statement: a STOPPED jail is stopped again.
StopCheckNoShortCircuit(t) ==
    LET j == tj[t] IN
    /\ pc[t] = "stop_check"
    /\ status_' = [status_ EXCEPT ![j] = "STOPPING"]
    /\ Goto(t, "stop_sshd")
    /\ UNCHANGED <<sshd_pid_, start_time_, active_mounts_, mutex_, jails_,
                   config_, pool_mutex_, osVars, tj, op, caller, um_it,
                   um_retries, ret, pre, os_fail>>

\* A stop() that takes ERROR for STOPPED and returns at once.
StopCheckReturnsOnError(t) ==
    LET j == tj[t] IN
    /\ pc[t] = "stop_check"
    /\ IF status_[j] \in {"STOPPED", "ERROR"}
       THEN /\ StopReturns(t, TRUE)
            /\ UNCHANGED status_
       ELSE /\ status_' = [status_ EXCEPT ![j] = "STOPPING"]
            /\ Goto(t, "stop_sshd")
            /\ UNCHANGED <<ret, caller>>
    /\ UNCHANGED <<sshd_pid_, start_time_, active_mounts_, mutex_, jails_,
                   config_, pool_mutex_, osVars, tj, op, um_it, um_retries,
                   pre, os_fail>>

\* if (status_ == STOPPED) return true;  status_ = STOPPING;
StopCheck(t) ==
    LET j == tj[t] IN
    /\ pc[t] = "stop_check"
    /\ IF status_[j] = "STOPPED"
       THEN /\ StopReturns(t, TRUE)
            /\ UNCHANGED status_
       ELSE /\ status_' = [status_ EXCEPT ![j] = "STOPPING"]
            /\ Goto(t, "stop_sshd")
            /\ UNCHANGED <<ret, caller>>
    /\ UNCHANGED <<sshd_pid_, start_time_, active_mounts_, mutex_, jails_, config_, pool_mutex_,
                   osVars, tj, op, um_it, um_retries, pre, os_fail>>

\* stopSshd without its sshd_pid_ = -1.
StopSshdKeepsPid(t) ==
    LET j == tj[t] IN
    /\ pc[t] = "stop_sshd"
    /\ alive' = alive \ {sshd_pid_[j]}
    /\ Goto(t, "stop_cleanup")
    /\ UNCHANGED <<status_, sshd_pid_, start_time_, active_mounts_, mutex_,
                   jails_, config_, pool_mutex_, fs_root, kmounts, clock, umount_log, umount_res, tj, op, caller,
                   um_it, um_retries, ret, pre, os_fail>>

\* stopSshd: if (sshd_pid_ > 0) { kill; waitpid; sshd_pid_ = -1; }
StopSshd(t) ==
    LET j == tj[t] IN
    /\ pc[t] = "stop_sshd"
    /\ alive' = alive \ {sshd_pid_[j]}
    /\ sshd_pid_' = [sshd_pid_ EXCEPT ![j] = NoPid]
    /\ Goto(t, "stop_cleanup")
    /\ UNCHANGED <<status_, start_time_, active_mounts_, mutex_, jails_, config_, pool_mutex_,
                   fs_root, kmounts, clock, umount_log, umount_res, tj, op, caller, um_it,
                   um_retries, ret, pre, os_fail>>

\* runCleanupScript, then the call of unmountAll. The
\* std::filesystem::exists(cleanup_script) may throw filesystem_error, which
\* stop() catches: status_ = ERROR; return false.
StopCleanup(t) ==
    LET j == tj[t] IN
    /\ pc[t] = "stop_cleanup"
    /\ \/ /\ UnmountBegin(t)
          /\ Goto(t, "stop_unmount")
          /\ OsOk
          /\ UNCHANGED <<status_, ret, caller>>
       \/ /\ status_' = [status_ EXCEPT ![j] = "ERROR"]
          /\ StopReturns(t, FALSE)
          /\ OsFails(t)
          /\ UNCHANGED <<um_it, um_retries, umount_log, umount_res>>
    /\ UNCHANGED <<sshd_pid_, start_time_, active_mounts_, mutex_, jails_, config_, pool_mutex_,
                   fs_root, kmounts, alive, clock, tj, op, pre>>

StopUnmount(t) == UnmountStep(t, "stop_unmount", "stop_finish")

\* A stop() that reports a retried unmount as a failure.
StopFinishFailsOnBusy(t) ==
    LET j == tj[t]
        retried == \E i \in 1..Len(umount_res[j]) : umount_res[j][i].busy > 0
    IN
    /\ pc[t] = "stop_finish"
    /\ status_' = [status_ EXCEPT ![j] = IF retried THEN "ERROR" ELSE "STOPPED"]
    /\ StopReturns(t, ~retried)
    /\ UNCHANGED <<sshd_pid_, start_time_, active_mounts_, mutex_, jails_, config_, pool_mutex_,
                   osVars, tj, op, um_it, um_retries, pre, os_fail>>

\* status_ = STOPPED; return true;
StopFinish(t) ==
    LET j == tj[t] IN
    /\ pc[t] = "stop_finish"
    /\ status_' = [status_ EXCEPT ![j] = "STOPPED"]
    /\ StopReturns(t, TRUE)
    /\ UNCHANGED <<sshd_pid_, start_time_, active_mounts_, mutex_, jails_, config_, pool_mutex_,
                   osVars, tj, op, um_it, um_retries, pre, os_fail>>

Stop(t) ==
    \/ \E j \in Names : StopCall(t, j)
    \/ StopCheck(t)
    \/ StopSshd(t)
    \/ StopCleanup(t)
    \/ StopUnmount(t)
    \/ StopFinish(t)

\* ----------------------------------------------------------------- destroy

DestroyCall(t, j) == CallLocked(t, j, "destroy", "destroy_stop")

\* destroy() holds mutex_ and calls stop(), whose first statement locks
\* mutex_ again. std::mutex is not recursive: locking it from the thread
\* that owns it is undefined. The thread blocks forever in lock() (a build
\* with thread support); or lock() throws std::system_error, which
\* destroy() catches to return false; or lock() returns (a build without
\* thread support, where lock and unlock do nothing; it has no second
\* thread, and the model leaves the mutex with its owner until destroy()
\* returns).
DestroyStop(t) ==
    /\ pc[t] = "destroy_stop"
    /\ \/ /\ Goto(t, "stop_lock")
          /\ caller' = [caller EXCEPT ![t] = "destroy"]
          /\ UNCHANGED ret
       \/ /\ Goto(t, "unlock")
          /\ ret' = [ret EXCEPT ![t] = FALSE]
          /\ UNCHANGED caller
       \/ /\ Goto(t, "stop_check")
          /\ caller' = [caller EXCEPT ![t] = "destroy"]
          /\ UNCHANGED ret
    /\ UNCHANGED <<jailVars, osVars, tj, op, um_it, um_retries, pre, os_fail>>

\* destroy(), after stop(): the call of unmountAll.
DestroyUnmountCall(t) ==
    /\ pc[t] = "destroy_unmount"
    /\ UnmountBegin(t)
    /\ Goto(t, "destroy_unmounting")
    /\ UNCHANGED <<jailVars, fs_root, kmounts, alive, clock, tj, op, caller, ret,
                   pre, os_fail>>

DestroyUnmount(t) == UnmountStep(t, "destroy_unmounting", "destroy_remove")

\* if (exists(jail_path_)) remove_all(jail_path_);  return true;
\* Both may throw filesystem_error: return false.
DestroyRemove(t) ==
    LET j == tj[t] IN
    /\ pc[t] = "destroy_remove"
    /\ \/ /\ fs_root' = [fs_root EXCEPT ![j] = FALSE]
          /\ ret' = [ret EXCEPT ![t] = TRUE]
          /\ OsOk
       \/ /\ ret' = [ret EXCEPT ![t] = FALSE]
          /\ OsFails(t)
          /\ UNCHANGED fs_root
    /\ Goto(t, "unlock")
    /\ UNCHANGED <<jailVars, kmounts, alive, clock, umount_log, umount_res, tj,
                   op, caller, um_it, um_retries, pre>>

Destroy(t) ==
    \/ \E j \in Names : DestroyCall(t, j)
    \/ DestroyStop(t)
    \/ DestroyUnmountCall(t)
    \/ DestroyUnmount(t)
    \/ DestroyRemove(t)

\* ------------------------------------------------------------------ create

CreateCall(t, j) == CallLocked(t, j, "create", "create_body")

\* A create() that resets the status of the manager.
CreateBodyResetsStatus(t) ==
    LET j == tj[t] IN
    /\ pc[t] = "create_body"
    /\ fs_root' = [fs_root EXCEPT ![j] = TRUE]
    /\ status_' = [status_ EXCEPT ![j] = "STOPPED"]
    /\ ret' = [ret EXCEPT ![t] = TRUE]
    /\ OsOk
    /\ Goto(t, "unlock")
    /\ UNCHANGED <<sshd_pid_, start_time_, active_mounts_, mutex_, jails_,
                   config_, pool_mutex_, kmounts, alive, clock, umount_log,
                   umount_res, tj, op, caller, um_it, um_retries, pre>>

\* create(): builds the tree under jail_path_ and returns true, or catches
\* an exception of one of its steps and returns false, leaving what was
\* built so far. No field of the manager is written.
CreateBody(t) ==
    LET j == tj[t] IN
    /\ pc[t] = "create_body"
    /\ \/ /\ fs_root' = [fs_root EXCEPT ![j] = TRUE]
          /\ ret' = [ret EXCEPT ![t] = TRUE]
          /\ OsOk
       \/ /\ \E built \in {fs_root[j], TRUE} :
                fs_root' = [fs_root EXCEPT ![j] = built]
          /\ ret' = [ret EXCEPT ![t] = FALSE]
          /\ OsFails(t)
    /\ Goto(t, "unlock")
    /\ UNCHANGED <<jailVars, kmounts, alive, clock, umount_log, umount_res, tj,
                   op, caller, um_it, um_retries, pre>>

Create(t) ==
    \/ \E j \in Names : CreateCall(t, j)
    \/ CreateBody(t)

\* ----------------------------------------------------------------- execute

ExecuteCall(t, j) == CallUnlocked(t, j, "execute", "execute_check")

\* execute() without its status check.
ExecuteCheckSkipped(t) ==
    /\ pc[t] = "execute_check"
    /\ Goto(t, "execute_fork")
    /\ UNCHANGED <<jailVars, osVars, tj, op, caller, um_it, um_retries, ret,
                   pre, os_fail>>

\* if (status_ != RUNNING) throw JailError("Jail is not running, ...")
ExecuteCheck(t) ==
    /\ pc[t] = "execute_check"
    /\ IF status_[tj[t]] # "RUNNING"
       THEN /\ ret' = [ret EXCEPT ![t] = "JailError: not running"]
            /\ Goto(t, "ret")
       ELSE /\ Goto(t, "execute_fork")
            /\ UNCHANGED ret
    /\ UNCHANGED <<jailVars, osVars, tj, op, caller, um_it, um_retries, pre, os_fail>>

\* fork(); the parent waits for the child and returns the result text, or
\* throws when fork() fails.
ExecuteFork(t) ==
    /\ pc[t] = "execute_fork"
    /\ \E r \in {"Command executed successfully", "Command execution failed",
                 "Command was interrupted by signal",
                 "JailError: cannot create child process"} :
          /\ ret' = [ret EXCEPT ![t] = r]
          /\ IF r = "JailError: cannot create child process"
             THEN OsFails(t) ELSE OsOk
    /\ Goto(t, "ret")
    /\ UNCHANGED <<jailVars, osVars, tj, op, caller, um_it, um_retries, pre>>

Execute(t) ==
    \/ \E j \in Names : ExecuteCall(t, j)
    \/ ExecuteCheck(t)
    \/ ExecuteFork(t)

\* ---------------------------------------------------------- validateConfig

\* std::string::find(sub) != npos: sub occurs in s at some position.
Contains(s, sub) ==
    \E i \in 1..Len(s) :
        /\ i + Len(sub) - 1 <= Len(s)
        /\ SubSeq(s, i, i + Len(sub) - 1) = sub

\* What a call comes to: the value it returns, or the exception it throws
\* to its caller.
Returned(v) == [returned |-> <<v>>, thrown |-> <<>>]
Thrown(e) == [returned |-> <<>>, thrown |-> <<e>>]

\* validateConfig(): the three checks in the order the code makes them; a
\* failed check throws JailError, and there is no try block in it.
ValidateConfigResult(c) ==
    IF c.name = "" THEN Thrown("JailError: name cannot be empty")
    ELSE IF c.port < MinPort \/ c.port > MaxPort
    THEN Thrown("JailError: port must be in range")
    ELSE IF Contains(c.root_path, <<".", ".">>)
    THEN Thrown("JailError: path contains directory traversal")
    ELSE Returned(TRUE)

ValidateConfigCall(t, j) ==
    CallUnlocked(t, j, "validateConfig", "validate_body")

ValidateConfigBody(t) ==
    /\ pc[t] = "validate_body"
    /\ ret' = [ret EXCEPT ![t] = ValidateConfigResult(config_[tj[t]])]
    /\ Goto(t, "ret")
    /\ UNCHANGED <<jailVars, osVars, tj, op, caller, um_it, um_retries, pre,
                   os_fail>>

ValidateConfig(t) ==
    \/ \E j \in Names : ValidateConfigCall(t, j)
    \/ ValidateConfigBody(t)

\* ---------------------------------------------------------- read accessors

\* getStatus(): return status_, without the lock.
GetStatus(t, j) ==
    /\ pc[t] = "idle"
    /\ j \in jails_
    /\ tj' = [tj EXCEPT ![t] = j]
    /\ op' = [op EXCEPT ![t] = "getStatus"]
    /\ ret' = [ret EXCEPT ![t] = status_[j]]
    /\ Goto(t, "ret")
    /\ UNCHANGED <<jailVars, osVars, caller, um_it, um_retries, pre, os_fail>>

\* JailRuntimeInfo as getRuntimeInfo fills it: pid stays -1 unless
\* sshd_pid_ > 0, and error_message is never assigned.
RuntimeInfo(j) ==
    [name |-> config_[j].name,
     status |-> status_[j],
     pid |-> IF sshd_pid_[j] > 0 THEN sshd_pid_[j] ELSE NoPid,
     ssh_port |-> config_[j].port,
     ip_address |-> "127.0.0.1",
     start_time |-> start_time_[j],
     mounts |-> active_mounts_[j],
     error_message |-> ""]

GetRuntimeInfoCall(t, j) == CallLocked(t, j, "getRuntimeInfo", "info_body")

\* getRuntimeInfo(): the copy of the fields, made under the lock.
GetRuntimeInfoBody(t) ==
    /\ pc[t] = "info_body"
    /\ ret' = [ret EXCEPT ![t] = RuntimeInfo(tj[t])]
    /\ Goto(t, "unlock")
    /\ UNCHANGED <<jailVars, osVars, tj, op, caller, um_it, um_retries, pre, os_fail>>

Read(t) ==
    \/ \E j \in Names : GetStatus(t, j)
    \/ \E j \in Names : GetRuntimeInfoCall(t, j)
    \/ GetRuntimeInfoBody(t)

\* --------------------------------------------------------- JailManagerPool

\* The methods of JailManager.
ManagerOps == {"create", "start", "stop", "destroy", "execute", "getStatus",
               "getRuntimeInfo"}

\* A map that iterates from its greatest key down.
NameOrderDescending == <<"b", "a">>

\* std::map iterates in the order of its keys.
NameOrder == <<"a", "b">>

\* The names of S in the order the map iterates in.
InOrder(S) == SelectSeq(NameOrder, LAMBDA n : n \in S)

\* The first statement of each method of the pool, after its lock_guard.
PoolFirst ==
    [addEnvironment |-> "add_check", removeEnvironment |-> "remove_find",
     getJail |-> "get_body", listJails |-> "list_body",
     getAllRuntimeInfo |-> "all_next", size |-> "size_body"]

\* A thread calls method m of the pool with name j: it is at the method's
\* std::lock_guard lock(mutex_).
PoolCall(t, j, m) ==
    /\ pc[t] = "idle"
    /\ tj' = [tj EXCEPT ![t] = j]
    /\ op' = [op EXCEPT ![t] = m]
    /\ Goto(t, "pool_lock")
    /\ UNCHANGED <<jailVars, osVars, caller, um_it, um_retries, ret, pre,
                   os_fail>>

\* A method of the pool without its lock_guard.
PoolLockNoWait(t) ==
    /\ pc[t] = "pool_lock"
    /\ Goto(t, PoolFirst[op[t]])
    /\ ret' = [ret EXCEPT ![t] =
                  IF op[t] = "getAllRuntimeInfo" THEN <<>> ELSE @]
    /\ UNCHANGED <<jailVars, osVars, tj, op, caller, um_it, um_retries, pre,
                   os_fail>>

\* lock_guard's constructor: the thread waits while the pool's mutex is
\* owned, then owns it. getAllRuntimeInfo starts with an empty result.
PoolLock(t) ==
    /\ pc[t] = "pool_lock"
    /\ pool_mutex_ = "free"
    /\ pool_mutex_' = t
    /\ Goto(t, PoolFirst[op[t]])
    /\ ret' = [ret EXCEPT ![t] =
                  IF op[t] = "getAllRuntimeInfo" THEN <<>> ELSE @]
    /\ UNCHANGED <<status_, sshd_pid_, start_time_, active_mounts_, mutex_,
                   jails_, config_, osVars, tj, op, caller, um_it, um_retries, pre,
                   os_fail>>

\* The return of a method of the pool: lock_guard's destructor releases
\* the pool's mutex and the thread is back in its caller.
PoolUnlock(t) ==
    /\ pc[t] = "pool_unlock"
    /\ pool_mutex_' = "free"
    /\ Goto(t, "idle")
    /\ op' = [op EXCEPT ![t] = "none"]
    /\ ret' = [ret EXCEPT ![t] = NoRet]
    /\ os_fail' = [os_fail EXCEPT ![t] = FALSE]
    /\ UNCHANGED <<status_, sshd_pid_, start_time_, active_mounts_, mutex_,
                   jails_, config_, osVars, tj, caller, um_it, um_retries, pre>>

\* An addEnvironment that does not look for the name.
AddCheckAlwaysInserts(t) ==
    /\ pc[t] = "add_check"
    /\ Goto(t, "add_insert")
    /\ UNCHANGED <<jailVars, osVars, tj, op, caller, um_it, um_retries, ret,
                   pre, os_fail>>

\* addEnvironment: if (jails_.count(config.name)) return false;
AddCheck(t) ==
    /\ pc[t] = "add_check"
    /\ IF tj[t] \in jails_
       THEN /\ ret' = [ret EXCEPT ![t] = FALSE]
            /\ Goto(t, "pool_unlock")
       ELSE /\ Goto(t, "add_insert")
            /\ UNCHANGED ret
    /\ UNCHANGED <<jailVars, osVars, tj, op, caller, um_it, um_retries, pre,
                   os_fail>>

\* addEnvironment: jails_[config.name] = make_unique<JailManager>(config);
\* return true. The new manager has its constructor's fields.
AddInsert(t) ==
    LET j == tj[t] IN
    /\ pc[t] = "add_insert"
    /\ jails_' = jails_ \cup {j}
    /\ status_' = [status_ EXCEPT ![j] = "STOPPED"]
    /\ sshd_pid_' = [sshd_pid_ EXCEPT ![j] = NoPid]
    /\ start_time_' = [start_time_ EXCEPT ![j] = 0]
    /\ active_mounts_' = [active_mounts_ EXCEPT ![j] = <<>>]
    /\ mutex_' = [mutex_ EXCEPT ![j] = "free"]
    /\ ret' = [ret EXCEPT ![t] = TRUE]
    /\ Goto(t, "pool_unlock")
    /\ UNCHANGED <<pool_mutex_, config_, osVars, tj, op, caller, um_it, um_retries, pre,
                   os_fail>>

\* removeEnvironment: it = jails_.find(name); if (it == end) return false;
\* otherwise it->second->stop() is called, the pool's mutex held.
RemoveFind(t) ==
    /\ pc[t] = "remove_find"
    /\ IF tj[t] \notin jails_
       THEN /\ ret' = [ret EXCEPT ![t] = FALSE]
            /\ Goto(t, "pool_unlock")
            /\ UNCHANGED caller
       ELSE /\ Goto(t, "stop_lock")
            /\ caller' = [caller EXCEPT ![t] = "remove"]
            /\ UNCHANGED ret
    /\ UNCHANGED <<jailVars, osVars, tj, op, um_it, um_retries, pre, os_fail>>

\* The lock_guard of a stop() called from another method: the thread waits
\* while the manager's mutex is owned (forever, if it owns it itself).
StopLock(t) ==
    /\ pc[t] = "stop_lock"
    /\ mutex_[tj[t]] = "free"
    /\ mutex_' = [mutex_ EXCEPT ![tj[t]] = t]
    /\ pre' = [pre EXCEPT ![t] = Snapshot(tj[t])]
    /\ Goto(t, "stop_check")
    /\ UNCHANGED <<status_, sshd_pid_, start_time_, active_mounts_, jails_, config_,
                   pool_mutex_, osVars, tj, op, caller, um_it, um_retries, ret,
                   os_fail>>

\* stop() has returned into removeEnvironment: its lock_guard has released
\* the manager's mutex.
RemoveStopReturn(t) ==
    /\ pc[t] = "remove_stop_ret"
    /\ mutex_' = [mutex_ EXCEPT ![tj[t]] = "free"]
    /\ umount_log' = [umount_log EXCEPT ![tj[t]] = <<>>]
    /\ umount_res' = [umount_res EXCEPT ![tj[t]] = <<>>]
    /\ pre' = [pre EXCEPT ![t] = NoPre]
    /\ Goto(t, "remove_erase")
    /\ UNCHANGED <<status_, sshd_pid_, start_time_, active_mounts_, jails_, config_,
                   pool_mutex_, fs_root, kmounts, alive, clock, tj, op, caller,
                   um_it, um_retries, ret, os_fail>>

\* Another thread is inside a method of manager j.
InUse(t, j) ==
    \E u \in Threads \ {t} :
        tj[u] = j /\ op[u] \in ManagerOps /\ pc[u] \notin {"idle", "off"}

\* removeEnvironment: jails_.erase(it); return true. The unique_ptr deletes
\* the manager. Deleting a manager another thread is inside of is
\* undefined: that thread goes on with the fields where they were (the
\* storage is not given back, or is handed to the next manager of that
\* name), or the process dies.
RemoveErase(t) ==
    /\ pc[t] = "remove_erase"
    /\ \/ /\ jails_' = jails_ \ {tj[t]}
          /\ ret' = [ret EXCEPT ![t] = TRUE]
          /\ Goto(t, "pool_unlock")
       \/ /\ InUse(t, tj[t])
          /\ pc' = [u \in Threads |-> "crashed"]
          /\ UNCHANGED <<jails_, config_, ret>>
    /\ UNCHANGED <<status_, sshd_pid_, start_time_, active_mounts_, mutex_,
                   pool_mutex_, config_, osVars, tj, op, caller, um_it, um_retries, pre,
                   os_fail>>

\* unmountAll on a manager that was deleted and whose storage the next
\* manager of that name took: the iterator is outside the new, empty
\* list, and the process dies of what it reads there.
StaleIterator(t) ==
    /\ pc[t] \in {"stop_unmount", "destroy_unmounting"}
    /\ um_it[t] > Len(active_mounts_[tj[t]])
    /\ pc' = [u \in Threads |-> "crashed"]
    /\ UNCHANGED <<jailVars, osVars, tj, op, caller, um_it, um_retries, ret,
                   pre, os_fail>>

\* getJail: the manager's address, or nullptr.
GetJailBody(t) ==
    /\ pc[t] = "get_body"
    /\ ret' = [ret EXCEPT ![t] = IF tj[t] \in jails_ THEN tj[t] ELSE "nullptr"]
    /\ Goto(t, "pool_unlock")
    /\ UNCHANGED <<jailVars, osVars, tj, op, caller, um_it, um_retries, pre,
                   os_fail>>

\* listJails: the names, in the map's order.
ListJailsBody(t) ==
    /\ pc[t] = "list_body"
    /\ ret' = [ret EXCEPT ![t] = InOrder(jails_)]
    /\ Goto(t, "pool_unlock")
    /\ UNCHANGED <<jailVars, osVars, tj, op, caller, um_it, um_retries, pre,
                   os_fail>>

\* getAllRuntimeInfo: one pass of the loop, result.push_back(
\* jail->getRuntimeInfo()), which locks the manager's mutex for the copy
\* (the thread waits while it is owned); or the return after the last one.
GetAllNext(t) ==
    LET todo == InOrder(jails_)
        k == Len(ret[t]) + 1
    IN
    /\ pc[t] = "all_next"
    /\ IF k > Len(todo)
       THEN /\ Goto(t, "pool_unlock")
            /\ UNCHANGED ret
       ELSE /\ mutex_[todo[k]] = "free"
            /\ ret' = [ret EXCEPT ![t] = Append(@, RuntimeInfo(todo[k]))]
            /\ UNCHANGED pc
    /\ UNCHANGED <<jailVars, osVars, tj, op, caller, um_it, um_retries, pre,
                   os_fail>>

\* size: jails_.size()
SizeBody(t) ==
    /\ pc[t] = "size_body"
    /\ ret' = [ret EXCEPT ![t] = Cardinality(jails_)]
    /\ Goto(t, "pool_unlock")
    /\ UNCHANGED <<jailVars, osVars, tj, op, caller, um_it, um_retries, pre,
                   os_fail>>

AddEnvironment(t) ==
    \/ \E j \in Names : PoolCall(t, j, "addEnvironment")
    \/ AddCheck(t)
    \/ AddInsert(t)

RemoveEnvironment(t) ==
    \/ \E j \in Names : PoolCall(t, j, "removeEnvironment")
    \/ RemoveFind(t)
    \/ StopLock(t)
    \/ RemoveStopReturn(t)
    \/ RemoveErase(t)
    \/ StaleIterator(t)

PoolRead(t) ==
    \/ \E j \in Names : PoolCall(t, j, "getJail")
    \/ PoolCall(t, tj[t], "listJails")
    \/ PoolCall(t, tj[t], "getAllRuntimeInfo")
    \/ PoolCall(t, tj[t], "size")
    \/ GetJailBody(t)
    \/ ListJailsBody(t)
    \/ GetAllNext(t)
    \/ SizeBody(t)

\* ----------------------------------------------------------- specification

Step(t) ==
    \/ Start(t)
    \/ Stop(t)
    \/ Destroy(t)
    \/ Create(t)
    \/ Execute(t)
    \/ Read(t)
    \/ Unlock(t)
    \/ Return(t)

Next == \E t \in Threads : Step(t)

Spec == Init /\ [][Next]_vars

\* Two threads on the managers of a pool that holds environment "a", whose
\* tree was created.
InitThreads ==
    /\ status_ = [j \in Names |-> "STOPPED"]
    /\ sshd_pid_ = [j \in Names |-> NoPid]
    /\ start_time_ = [j \in Names |-> 0]
    /\ active_mounts_ = [j \in Names |-> <<>>]
    /\ mutex_ = [j \in Names |-> "free"]
    /\ jails_ = {"a"}
    /\ pool_mutex_ = "free"
    /\ config_ = [j \in Names |-> DefaultConfig(j)]
    /\ fs_root = [j \in Names |-> j = "a"]
    /\ kmounts = {}
    /\ alive = {}
    /\ clock = 1
    /\ umount_log = [j \in Names |-> <<>>]
    /\ umount_res = [j \in Names |-> <<>>]
    /\ pc = [t \in Threads |-> "idle"]
    /\ tj = [t \in Threads |-> "a"]
    /\ op = [t \in Threads |-> "none"]
    /\ caller = [t \in Threads |-> "none"]
    /\ um_it = [t \in Threads |-> 0]
    /\ um_retries = [t \in Threads |-> 0]
    /\ ret = [t \in Threads |-> NoRet]
    /\ pre = [t \in Threads |-> NoPre]
    /\ os_fail = [t \in Threads |-> FALSE]

\* Two threads that start and stop one jail and run commands in it.
StepMT(t) ==
    \/ Start(t)
    \/ Stop(t)
    \/ Execute(t)
    \/ Unlock(t)
    \/ Return(t)

NextMT == \E t \in Threads : StepMT(t)

SpecMT == InitThreads /\ [][NextMT]_vars

\* Two threads in the methods of one manager that take its mutex.
StepLocked(t) ==
    \/ Create(t)
    \/ Start(t)
    \/ Stop(t)
    \/ Destroy(t)
    \/ \E j \in Names : GetRuntimeInfoCall(t, j)
    \/ GetRuntimeInfoBody(t)
    \/ Unlock(t)

NextLocked == \E t \in Threads : StepLocked(t)

SpecLocked == InitThreads /\ [][NextLocked]_vars

\* Two threads on a pool whose environment "a" was created and started:
\* its four filesystems are mounted and recorded, its service process runs.
InitPool ==
    /\ status_ = [j \in Names |-> IF j = "a" THEN "RUNNING" ELSE "STOPPED"]
    /\ sshd_pid_ = [j \in Names |-> IF j = "a" THEN 1 ELSE NoPid]
    /\ start_time_ = [j \in Names |-> IF j = "a" THEN 1 ELSE 0]
    /\ active_mounts_ =
           [j \in Names |-> IF j = "a" THEN FixedMounts("a") ELSE <<>>]
    /\ mutex_ = [j \in Names |-> "free"]
    /\ jails_ = {"a"}
    /\ pool_mutex_ = "free"
    /\ config_ = [j \in Names |-> DefaultConfig(j)]
    /\ fs_root = [j \in Names |-> j = "a"]
    /\ kmounts = {FixedMounts("a")[i].target : i \in 1..NumFixed}
    /\ alive = {1}
    /\ clock = MaxClock
    /\ umount_log = [j \in Names |-> <<>>]
    /\ umount_res = [j \in Names |-> <<>>]
    /\ pc = [t \in Threads |-> "idle"]
    /\ tj = [t \in Threads |-> "a"]
    /\ op = [t \in Threads |-> "none"]
    /\ caller = [t \in Threads |-> "none"]
    /\ um_it = [t \in Threads |-> 0]
    /\ um_retries = [t \in Threads |-> 0]
    /\ ret = [t \in Threads |-> NoRet]
    /\ pre = [t \in Threads |-> NoPre]
    /\ os_fail = [t \in Threads |-> FALSE]

\* Two threads on the pool, and stopping the managers it hands out.
StepPool(t) ==
    \/ AddEnvironment(t)
    \/ RemoveEnvironment(t)
    \/ PoolRead(t)
    \/ PoolLock(t)
    \/ PoolUnlock(t)
    \/ Stop(t)
    \/ Unlock(t)

NextPool == \E t \in Threads : StepPool(t)

SpecPool == InitPool /\ [][NextPool]_vars

\* One thread that validates the configuration of a manager constructed
\* with any configuration.
InitValidate ==
    /\ status_ = [j \in Names |-> "STOPPED"]
    /\ sshd_pid_ = [j \in Names |-> NoPid]
    /\ start_time_ = [j \in Names |-> 0]
    /\ active_mounts_ = [j \in Names |-> <<>>]
    /\ mutex_ = [j \in Names |-> "free"]
    /\ jails_ = {"a"}
    /\ pool_mutex_ = "free"
    /\ config_ \in {[j \in Names |-> IF j = "a" THEN c ELSE DefaultConfig(j)] :
                       c \in {d \in Configs : d.mounts = <<>>}}
    /\ fs_root = [j \in Names |-> FALSE]
    /\ kmounts = {}
    /\ alive = {}
    /\ clock = 1
    /\ umount_log = [j \in Names |-> <<>>]
    /\ umount_res = [j \in Names |-> <<>>]
    /\ pc = [t \in Threads |-> IF t \in Running THEN "idle" ELSE "off"]
    /\ tj = [t \in Threads |-> "a"]
    /\ op = [t \in Threads |-> "none"]
    /\ caller = [t \in Threads |-> "none"]
    /\ um_it = [t \in Threads |-> 0]
    /\ um_retries = [t \in Threads |-> 0]
    /\ ret = [t \in Threads |-> NoRet]
    /\ pre = [t \in Threads |-> NoPre]
    /\ os_fail = [t \in Threads |-> FALSE]

StepValidate(t) ==
    \/ ValidateConfig(t)
    \/ Return(t)

NextValidate == \E t \in Threads : StepValidate(t)

SpecValidate == InitValidate /\ [][NextValidate]_vars

\* One thread that starts and stops a created jail whose configuration
\* asks for any list of mounts.
InitMounts ==
    /\ status_ = [j \in Names |-> "STOPPED"]
    /\ sshd_pid_ = [j \in Names |-> NoPid]
    /\ start_time_ = [j \in Names |-> 0]
    /\ active_mounts_ = [j \in Names |-> <<>>]
    /\ mutex_ = [j \in Names |-> "free"]
    /\ jails_ = {"a"}
    /\ pool_mutex_ = "free"
    /\ config_ \in {[j \in Names |->
                        IF j = "a"
                        THEN [DefaultConfig(j) EXCEPT !.mounts = m]
                        ELSE DefaultConfig(j)] : m \in MountLists}
    /\ fs_root = [j \in Names |-> j = "a"]
    /\ kmounts = {}
    /\ alive = {}
    /\ clock = 1
    /\ umount_log = [j \in Names |-> <<>>]
    /\ umount_res = [j \in Names |-> <<>>]
    /\ pc = [t \in Threads |-> IF t \in Running THEN "idle" ELSE "off"]
    /\ tj = [t \in Threads |-> "a"]
    /\ op = [t \in Threads |-> "none"]
    /\ caller = [t \in Threads |-> "none"]
    /\ um_it = [t \in Threads |-> 0]
    /\ um_retries = [t \in Threads |-> 0]
    /\ ret = [t \in Threads |-> NoRet]
    /\ pre = [t \in Threads |-> NoPre]
    /\ os_fail = [t \in Threads |-> FALSE]

StepMounts(t) ==
    \/ Start(t)
    \/ Stop(t)
    \/ Unlock(t)

NextMounts == \E t \in Threads : StepMounts(t)

SpecMounts == InitMounts /\ [][NextMounts]_vars

\* Two threads in the methods of the pool that lock a manager's mutex and
\* in the methods of the managers it hands out that take that mutex.
StepOrder(t) ==
    \/ \E j \in Names : PoolCall(t, j, "removeEnvironment")
    \/ RemoveFind(t)
    \/ StopLock(t)
    \/ RemoveStopReturn(t)
    \/ RemoveErase(t)
    \/ PoolCall(t, tj[t], "getAllRuntimeInfo")
    \/ GetAllNext(t)
    \/ PoolLock(t)
    \/ PoolUnlock(t)
    \/ Create(t)
    \/ Start(t)
    \/ Stop(t)
    \/ \E j \in Names : GetRuntimeInfoCall(t, j)
    \/ GetRuntimeInfoBody(t)
    \/ Unlock(t)

NextOrder == \E t \in Threads : StepOrder(t)

SpecOrder == InitPool /\ [][NextOrder]_vars

\* ------------------------------------------------------------------ claims

\* The targets of the fixed mounts of jail j.
JailTargets(j) == {FixedMounts(j)[i].target : i \in 1..NumFixed}

\* The targets of a list of records, last record first.
ReverseTargets(ms) == [i \in 1..Len(ms) |-> ms[Len(ms) + 1 - i].target]

\* A thread is at the return of method m, the lock still held.
Returning(t, m) == op[t] = m /\ pc[t] = "unlock"

\* C1: destroy() terminates: a thread inside destroy(), alone on the jail,
\* can always take its next step; it never waits forever for the jail's own
\* mutex in the stop() it calls.
C1_DestroyNeverBlocks ==
    \A t \in Threads : op[t] = "destroy" => ENABLED Step(t)

\* C2: when destroy() returns on a jail that was RUNNING, the jail's root no
\* longer exists, the service process was signalled and waited for, no pid
\* is tracked and the active mounts are empty.
C2_DestroyStopsRunningJail ==
    \A t \in Threads :
        (Returning(t, "destroy") /\ pre[t].status = "RUNNING") =>
            /\ ~fs_root[tj[t]]
            /\ sshd_pid_[tj[t]] = NoPid
            /\ pre[t].pid \notin alive
            /\ active_mounts_[tj[t]] = <<>>

\* C3: start() on a jail whose root does not exist returns false and leaves
\* the status STOPPED; no mount is recorded or made and no process forked.
C3_StartWithoutRootLeavesStopped ==
    \A t \in Threads :
        (Returning(t, "start") /\ pre[t].status = "STOPPED" /\ ~pre[t].fs_root)
        =>  /\ ret[t] = FALSE
            /\ status_[tj[t]] = "STOPPED"
            /\ active_mounts_[tj[t]] = pre[t].mounts
            /\ kmounts = pre[t].kmounts
            /\ sshd_pid_[tj[t]] = pre[t].pid
            /\ alive = pre[t].alive

\* C4: start() on a RUNNING jail returns true and leaves the status, the
\* active mounts, the pid and the start time as they were; it makes no mount
\* and forks no process.
C4_StartOnRunningIsIdempotent ==
    \A t \in Threads :
        (Returning(t, "start") /\ pre[t].status = "RUNNING") =>
            /\ ret[t] = TRUE
            /\ Snapshot(tj[t]) = pre[t]

\* C4's case: a start() returns on a jail that was RUNNING, at a time later
\* than the recorded start time.
C4_Witness ==
    \E t \in Threads :
        /\ Returning(t, "start")
        /\ pre[t].status = "RUNNING"
        /\ Len(pre[t].mounts) = NumFixed
        /\ pre[t].pid # NoPid
        /\ Now > pre[t].start

\* C5: between lifecycle operations the active mounts are empty if and only
\* if the status is STOPPED.
C5_MountsEmptyIffStopped ==
    \A j \in jails_ :
        mutex_[j] = "free" =>
            ((active_mounts_[j] = <<>>) <=> (status_[j] = "STOPPED"))

\* C6: between lifecycle operations the targets recorded in the active
\* mounts are exactly the targets mounted under the jail's root: a failed
\* mount is not recorded, a mount that was not unmounted is not dropped.
C6_MountsReflectKernel ==
    \A j \in jails_ :
        mutex_[j] = "free" =>
            {active_mounts_[j][i].target : i \in 1..Len(active_mounts_[j])}
                = kmounts \cap JailTargets(j)

\* C7, as claimed: a tracked pid implies that the status is RUNNING, in
\* every state.
C7_PidOnlyWhileRunning ==
    \A j \in Names : sshd_pid_[j] # NoPid => status_[j] = "RUNNING"

\* C7, amended: no pid is tracked while the status is STOPPED; a tracked
\* pid implies that the status is STARTING, RUNNING, STOPPING or ERROR.
C7_NoPidWhileStopped ==
    \A j \in Names : sshd_pid_[j] # NoPid => status_[j] # "STOPPED"

\* C7's case: between operations, a jail tracks a pid and is not RUNNING
\* (a start() that failed after the fork).
C7_Witness ==
    \E j \in Names :
        /\ mutex_[j] = "free"
        /\ sshd_pid_[j] # NoPid
        /\ sshd_pid_[j] \in alive
        /\ status_[j] = "ERROR"

\* The edges of the state machine, ERROR's recovery edge apart.
StatusEdges ==
    { <<"STOPPED", "STARTING">>, <<"STARTING", "RUNNING">>,
      <<"STARTING", "ERROR">>, <<"RUNNING", "STOPPING">>,
      <<"STOPPING", "STOPPED">>, <<"STOPPING", "ERROR">> }

\* The status of jail j changes in a step of a stop() or a destroy().
ByStopOrDestroy(j) ==
    \E t \in Threads : tj[t] = j /\ op[t] \in {"stop", "destroy"}

\* C8: the status starts as STOPPED and every change of it is an edge of
\* the state machine, or leaves ERROR in a stop() or a destroy().
C8_StatusChangesAreEdges ==
    /\ \A j \in Names : status_[j] = "STOPPED"
    /\ [][\A j \in Names :
            status_'[j] # status_[j] =>
                \/ <<status_[j], status_'[j]>> \in StatusEdges
                \/ status_[j] = "ERROR" /\ ByStopOrDestroy(j)]_vars

\* C9: a jail leaves ERROR only in a stop() or a destroy(): no step of
\* start(), create(), execute() or a read accessor changes an ERROR status.
C9_ErrorLeftOnlyByStopOrDestroy ==
    [][\A j \in Names :
          (status_[j] = "ERROR" /\ status_'[j] # "ERROR") => ByStopOrDestroy(j)]_vars

\* C10: the umount() calls of stop() visit the records in the reverse of the
\* order they were recorded in, each record's retries together: while
\* unmountAll runs the calls made are the first of that order, and when it
\* is done they are all of it.
C10_UnmountInReverseOrder ==
    \A t \in Threads :
        LET log == umount_log[tj[t]]
            want == ReverseTargets(pre[t].mounts)
        IN /\ pc[t] = "stop_unmount" =>
                 /\ Len(log) <= Len(want)
                 /\ log = SubSeq(want, 1, Len(log))
           /\ pc[t] = "stop_finish" => log = want

\* C10's case: the mounts of a RUNNING jail were recorded as proc, sysfs,
\* devpts, tmp and stop() has called umount() on tmp, devpts, sysfs, proc, one of them
\* after an EBUSY (a mount is left in the kernel).
C10_Witness ==
    \E t \in Threads :
        /\ op[t] = "stop"
        /\ pc[t] = "stop_finish"
        /\ pre[t].status = "RUNNING"
        /\ pre[t].mounts = FixedMounts("a")
        /\ umount_log["a"] = << Append(JailPath("a"), "tmp"),
                                Append(JailPath("a"), "dev/pts"),
                                Append(JailPath("a"), "sys"),
                                Append(JailPath("a"), "proc") >>
        /\ kmounts # {}

\* The records of jail j's running or last unmountAll whose umount() calls
\* reported EBUSY twice and then returned 0.
ThirdAttemptOk(j) ==
    {i \in 1..Len(umount_res[j]) :
        umount_res[j][i].busy = 2 /\ umount_res[j][i].ok}

\* C11: when stop() returns after an unmount that reported busy exactly
\* twice and succeeded on the third attempt, it returns true, the status is
\* STOPPED and that mount is not in the active mounts.
C11_RetryThenSuccess ==
    \A t \in Threads :
        (Returning(t, "stop") /\ ThirdAttemptOk(tj[t]) # {}) =>
            /\ ret[t] = TRUE
            /\ status_[tj[t]] = "STOPPED"
            /\ \A i \in ThirdAttemptOk(tj[t]) :
                  \A k \in 1..Len(active_mounts_[tj[t]]) :
                      active_mounts_[tj[t]][k].target # umount_log[tj[t]][i]

\* C11's case: stop() of a RUNNING jail returns after the umount() of one
\* target reported EBUSY twice and then returned 0.
C11_Witness ==
    \E t \in Threads :
        /\ Returning(t, "stop")
        /\ pre[t].status = "RUNNING"
        /\ ThirdAttemptOk(tj[t]) # {}
        /\ \E i \in ThirdAttemptOk(tj[t]) : umount_log[tj[t]][i] \notin kmounts

\* C12: when unmountAll of stop() is done, an umount() call was made on
\* every record of the list, whatever the calls on the later records came
\* to, and a failure was logged for every record whose calls all failed
\* (EBUSY on every attempt, or another error).
C12_FailureLoggedAndOthersAttempted ==
    \A t \in Threads :
        pc[t] = "stop_finish" =>
            /\ umount_log[tj[t]] = ReverseTargets(pre[t].mounts)
            /\ \A i \in 1..Len(umount_res[tj[t]]) :
                  ~umount_res[tj[t]][i].ok => UnmountLogLines(tj[t])[i] # <<>>

\* C13: execute() on a jail that is not RUNNING fails with "not running"
\* before any fork: the step that finds the status not RUNNING takes the
\* thread to its return with that error, makes no system call and changes
\* nothing of the managers or of the operating system.
C13_ExecuteNotRunning ==
    [][\A t \in Threads :
          (pc[t] = "execute_check" /\ pc'[t] # pc[t]
              /\ status_[tj[t]] # "RUNNING") =>
              /\ pc'[t] = "ret"
              /\ ret'[t] = "JailError: not running"
              /\ ~os_fail'[t]
              /\ UNCHANGED <<jailVars, osVars>>]_vars

\* C13's case: execute() on a jail in ERROR that has mounts and a process
\* has failed with "not running".
C13_Witness ==
    \E t \in Threads :
        /\ op[t] = "execute"
        /\ pc[t] = "ret"
        /\ status_[tj[t]] = "ERROR"
        /\ sshd_pid_[tj[t]] # NoPid
        /\ active_mounts_[tj[t]] # <<>>
        /\ ret[t] = "JailError: not running"

\* C14: execute() forks no child into a jail that is not RUNNING any more:
\* when the status has stopped being RUNNING between the entry check and
\* the fork, execute() fails with "not running" and makes no fork() call.
C14_NoForkAfterTeardown ==
    [][\A t \in Threads :
          (pc[t] = "execute_fork" /\ pc'[t] # pc[t]
              /\ status_[tj[t]] # "RUNNING") =>
              ret'[t] = "JailError: not running"]_vars

\* A thread is in a method of the pool, past its lock_guard.
InPool(t) ==
    /\ op[t] \in DOMAIN PoolFirst
    /\ pc[t] \notin {"idle", "pool_lock", "crashed"}

\* C15: the methods of the pool exclude each other, so of two concurrent
\* addEnvironment calls with one name only the one that finds the name
\* missing inserts a manager and returns true, the other finds it and
\* returns false; no insert replaces a manager the map holds, and when an
\* addEnvironment returns the map holds the name.
C15_AddOnce ==
    /\ \A t \in Threads : InPool(t) => pool_mutex_ = t
    /\ \A t \in Threads : pc[t] = "add_insert" => tj[t] \notin jails_
    /\ \A t \in Threads :
          (op[t] = "addEnvironment" /\ pc[t] = "pool_unlock") =>
              /\ tj[t] \in jails_
              /\ ret[t] \in BOOLEAN
              /\ \A u \in Threads \ {t} :
                    (op[u] = "addEnvironment" /\ tj[u] = tj[t]) =>
                        pc[u] = "pool_lock"

\* C15's case: two addEnvironment calls with the name "b" are in progress;
\* one has inserted the manager and is about to return true, the other
\* waits for the pool's mutex.
C15_Witness ==
    \E t, u \in Threads :
        /\ t # u
        /\ op[t] = "addEnvironment" /\ op[u] = "addEnvironment"
        /\ tj[t] = "b" /\ tj[u] = "b"
        /\ pc[t] = "pool_unlock" /\ ret[t] = TRUE
        /\ pc[u] = "pool_lock"
        /\ "b" \in jails_

\* The methods of JailManager that take its mutex.
LockedOps == {"create", "start", "stop", "destroy", "getRuntimeInfo"}

\* C16: at most one thread is inside create/start/stop/destroy/
\* getRuntimeInfo of a manager, and it owns the mutex; a start() finds the
\* manager as another call left it, never STARTING or STOPPING; and a
\* start() that finds it RUNNING returns true with the mounts, the pid and
\* the start time as the first start() left them.
C16_StartsDoNotInterleave ==
    /\ \A t \in Threads : op[t] \in LockedOps => mutex_[tj[t]] = t
    /\ \A t \in Threads :
          op[t] = "start" => pre[t].status \notin {"STARTING", "STOPPING"}
    /\ \A t \in Threads :
          (Returning(t, "start") /\ pre[t].status = "RUNNING") =>
              /\ ret[t] = TRUE
              /\ status_[tj[t]] = "RUNNING"
              /\ active_mounts_[tj[t]] = pre[t].mounts
              /\ sshd_pid_[tj[t]] = pre[t].pid
              /\ start_time_[tj[t]] = pre[t].start
              /\ alive = pre[t].alive

\* C16's case: one thread is inside start(), the mounts recorded and the
\* service not yet forked, and the other thread's start() on that jail
\* has to wait for the mutex.
C16_Witness ==
    \E t, u \in Threads :
        /\ t # u
        /\ op[t] = "start"
        /\ pc[t] = "start_sshd"
        /\ active_mounts_[tj[t]] = FixedMounts(tj[t])
        /\ pc[u] = "idle"
        /\ ~ENABLED StartCall(u, tj[t])

\* The positions of a thread in stop(), its lock_guard included.
StopPcs == {"stop_lock", "stop_check", "stop_sshd", "stop_cleanup",
            "stop_unmount", "stop_finish"}

\* C17: no thread is in a manager's stop() while it owns the pool's mutex,
\* nor waits for a manager's mutex while it owns it; so while a stop() is
\* in progress on one jail, a thread that calls a method of the pool for
\* another name can take the pool's mutex.
C17_PoolLockNotHeldAcrossLifecycle ==
    /\ \A t \in Threads : pc[t] \in StopPcs => pool_mutex_ # t
    /\ \A t \in Threads :
          (pc[t] = "all_next" /\ Len(ret[t]) < Cardinality(jails_)) =>
              ENABLED GetAllNext(t)
    /\ \A t, u \in Threads :
          (pc[u] \in StopPcs /\ pc[t] = "pool_lock" /\ tj[t] # tj[u]) =>
              ENABLED PoolLock(t)

\* C18: every snapshot getRuntimeInfo() returns has the status STOPPED,
\* RUNNING or ERROR; RUNNING comes with a pid and the four mounts, STOPPED
\* with no pid and no mounts.
C18_SnapshotConsistent ==
    \A t \in Threads :
        Returning(t, "getRuntimeInfo") =>
            /\ ret[t].status \in {"STOPPED", "RUNNING", "ERROR"}
            /\ ret[t].status = "RUNNING" =>
                  /\ ret[t].pid # NoPid
                  /\ Len(ret[t].mounts) = NumFixed
            /\ ret[t].status = "STOPPED" =>
                  /\ ret[t].pid = NoPid
                  /\ ret[t].mounts = <<>>

\* C19: when no system call fails, create() returns true and the tree
\* exists; start() of the created, STOPPED jail returns true with the
\* status RUNNING and the configured port in the runtime info; stop() of
\* the RUNNING jail returns true with the status STOPPED and no active
\* mounts; and destroy() of the STOPPED jail returns, true, with the tree
\* gone.
C19_EndToEnd ==
    \A t \in Threads :
        ~os_fail[t] =>
            /\ Returning(t, "create") => (ret[t] = TRUE /\ fs_root[tj[t]])
            /\ (Returning(t, "start") /\ pre[t].status = "STOPPED"
                    /\ pre[t].fs_root) =>
                  /\ ret[t] = TRUE
                  /\ status_[tj[t]] = "RUNNING"
                  /\ RuntimeInfo(tj[t]).ssh_port = SshPort[tj[t]]
            /\ (Returning(t, "stop") /\ pre[t].status = "RUNNING") =>
                  /\ ret[t] = TRUE
                  /\ status_[tj[t]] = "STOPPED"
                  /\ active_mounts_[tj[t]] = <<>>
            /\ (op[t] = "destroy" /\ pre[t].status = "STOPPED"
                    /\ pre[t].fs_root) =>
                  /\ pc[t] # "stop_lock"
                  /\ pc[t] = "unlock" => (ret[t] = TRUE /\ ~fs_root[tj[t]])

\* C20: when start() or stop() returns false the status is ERROR and the
\* runtime info holds a non-empty error message; every snapshot with the
\* status ERROR holds one.
C20_FailureRecordsCause ==
    /\ \A t \in Threads :
          ((Returning(t, "start") \/ Returning(t, "stop")) /\ ret[t] = FALSE)
          =>  /\ status_[tj[t]] = "ERROR"
              /\ RuntimeInfo(tj[t]).error_message # ""
    /\ \A t \in Threads :
          (Returning(t, "getRuntimeInfo") /\ ret[t].status = "ERROR") =>
              ret[t].error_message # ""
\* The values execute() hands to its caller by throwing: a JailError that
\* no try block catches.
Escaped ==
    {"JailError: not running", "JailError: cannot create child process"}

\* C21: no error leaves a lifecycle method: when create(), start(), stop(),
\* destroy(), execute() or validateConfig() is over, its failure, if any, is
\* in the value it returns and no exception goes to its caller.
C21_NoErrorEscapes ==
    \A t \in Threads :
        pc[t] \in {"ret", "unlock"} =>
            CASE op[t] \in {"create", "start", "stop", "destroy"} ->
                    ret[t] \in BOOLEAN
              [] op[t] = "execute" -> ret[t] \notin Escaped
              [] op[t] = "validateConfig" -> ret[t].thrown = <<>>
              [] OTHER -> TRUE
\* C22: a start() that fails after its mount step returns false with the
\* status ERROR and leaves the records of its mounts in the active mounts,
\* after those that were there; and records leave the active mounts only in
\* a step of stop() or destroy().
C22_FailedStartKeepsMounts ==
    /\ [](\A t \in Threads :
            (Returning(t, "start") /\ ret[t] = FALSE /\ pre[t].fs_root) =>
                /\ status_[tj[t]] = "ERROR"
                /\ active_mounts_[tj[t]] = pre[t].mounts \o FixedMounts(tj[t]))
    /\ [][\A j \in Names :
            Len(active_mounts_'[j]) < Len(active_mounts_[j]) =>
                ByStopOrDestroy(j)]_vars

\* C22's case: start() of a STOPPED jail returns false because the fork of
\* the service failed: the four mounts are made and recorded, no pid is
\* tracked.
C22_Witness ==
    \E t \in Threads :
        /\ Returning(t, "start")
        /\ ret[t] = FALSE
        /\ pre[t].status = "STOPPED"
        /\ os_fail[t]
        /\ sshd_pid_[tj[t]] = NoPid
        /\ active_mounts_[tj[t]] = FixedMounts(tj[t])
        /\ JailTargets(tj[t]) \subseteq kmounts
C24_DestroyFailsWhenStopFails ==
    \A t \in Threads :
        (Returning(t, "destroy") /\ ret[t] = TRUE) =>
            /\ status_[tj[t]] = "STOPPED"
            /\ ~fs_root[tj[t]]
\* C25: the step of addEnvironment that finds the name in the map returns
\* false and changes nothing of the managers, the map or the operating
\* system; the step that inserts is made for a name the map does not hold,
\* returns true, puts the name in the map with a manager whose status is
\* STOPPED, without pid or mounts, and leaves the other managers as they
\* are; and getJail returns the manager of every name the map holds.
C25_AddExistingChangesNothing ==
    /\ [][\A t \in Threads :
            (pc[t] = "add_check" /\ pc'[t] \notin {pc[t], "crashed"}
                /\ tj[t] \in jails_) =>
                /\ pc'[t] = "pool_unlock"
                /\ ret'[t] = FALSE
                /\ UNCHANGED <<jailVars, osVars>>]_vars
    /\ [][\A t \in Threads :
            (pc[t] = "add_insert" /\ pc'[t] \notin {pc[t], "crashed"}) =>
                /\ tj[t] \notin jails_
                /\ ret'[t] = TRUE
                /\ jails_' = jails_ \cup {tj[t]}
                /\ status_'[tj[t]] = "STOPPED"
                /\ sshd_pid_'[tj[t]] = NoPid
                /\ active_mounts_'[tj[t]] = <<>>
                /\ \A j \in jails_ :
                      /\ status_'[j] = status_[j]
                      /\ sshd_pid_'[j] = sshd_pid_[j]
                      /\ active_mounts_'[j] = active_mounts_[j]]_vars
    /\ [](\A t \in Threads :
            (op[t] = "getJail" /\ pc[t] = "pool_unlock" /\ tj[t] \in jails_)
                => ret[t] = tj[t])

\* C25's case: addEnvironment with the name of the RUNNING jail has
\* returned false; the jail has its four mounts and its process.
C25_Witness ==
    \E t \in Threads :
        /\ op[t] = "addEnvironment"
        /\ pc[t] = "pool_unlock"
        /\ ret[t] = FALSE
        /\ status_[tj[t]] = "RUNNING"
        /\ active_mounts_[tj[t]] = FixedMounts(tj[t])
        /\ sshd_pid_[tj[t]] \in alive
\* C26: removeEnvironment erases a jail it has stopped: at the step that
\* erases the entry the status is STOPPED, no pid is tracked and the active
\* mounts are empty; the step returns true and the name is out of the map,
\* so that getJail and listJails do not find it; for a name the map does
\* not hold it returns false and changes nothing; and no step of it
\* deletes a jail's root.
C26_RemoveStopsThenErases ==
    /\ [][\A t \in Threads :
            (pc[t] = "remove_erase" /\ pc'[t] \notin {pc[t], "crashed"}) =>
                /\ status_[tj[t]] = "STOPPED"
                /\ sshd_pid_[tj[t]] = NoPid
                /\ active_mounts_[tj[t]] = <<>>
                /\ ret'[t] = TRUE
                /\ jails_' = jails_ \ {tj[t]}
                /\ tj[t] \notin {InOrder(jails_')[i] :
                                     i \in 1..Len(InOrder(jails_'))}]_vars
    /\ [][\A t \in Threads :
            (pc[t] = "remove_find" /\ pc'[t] \notin {pc[t], "crashed"}
                /\ tj[t] \notin jails_) =>
                /\ ret'[t] = FALSE
                /\ UNCHANGED <<jailVars, osVars>>]_vars
    /\ [][\A t \in Threads :
            (op[t] = "removeEnvironment" /\ pc'[t] # pc[t]) =>
                fs_root' = fs_root]_vars
\* C27: when create() returns, true or false, the status, the tracked pid
\* and the active mounts of the jail are what they were when it was called,
\* whatever the status was.
C27_CreateKeepsState ==
    \A t \in Threads :
        Returning(t, "create") =>
            /\ ret[t] \in BOOLEAN
            /\ status_[tj[t]] = pre[t].status
            /\ sshd_pid_[tj[t]] = pre[t].pid
            /\ active_mounts_[tj[t]] = pre[t].mounts

\* C27's case: create() has failed on a RUNNING jail with its process and
\* its four mounts.
C27_Witness ==
    \E t \in Threads :
        /\ Returning(t, "create")
        /\ ret[t] = FALSE
        /\ pre[t].status = "RUNNING"
        /\ pre[t].pid \in alive
        /\ pre[t].mounts = FixedMounts(tj[t])
\* C28: stop() on a STOPPED jail goes from its status check to its return
\* with true: that step makes no system call and changes nothing, so when
\* the call returns no umount() was attempted, no process was signalled and
\* the manager and the operating system are as the call found them. A
\* stop() that returns true leaves the status STOPPED, so a second stop()
\* after it is that no-op.
C28_StopOnStoppedIsNoOp ==
    /\ [][\A t \in Threads :
            (op[t] = "stop" /\ pc[t] = "stop_check" /\ pc'[t] # pc[t]
                /\ status_[tj[t]] = "STOPPED") =>
                /\ pc'[t] = "unlock"
                /\ ret'[t] = TRUE
                /\ ~os_fail'[t]
                /\ UNCHANGED <<jailVars, osVars>>]_vars
    /\ [](\A t \in Threads :
            (Returning(t, "stop") /\ pre[t].status = "STOPPED") =>
                /\ ret[t] = TRUE
                /\ Snapshot(tj[t]) = pre[t]
                /\ umount_log[tj[t]] = <<>>)
    /\ [](\A t \in Threads :
            (Returning(t, "stop") /\ ret[t] = TRUE) =>
                status_[tj[t]] = "STOPPED")

\* C28's case: a stop() returns on a jail that was started, ran and was
\* stopped before this call.
C28_Witness ==
    \E t \in Threads :
        /\ Returning(t, "stop")
        /\ pre[t].status = "STOPPED"
        /\ pre[t].start > 0
        /\ pre[t].fs_root
        /\ ret[t] = TRUE
\* The path p has a segment "..": two dots with the start of the path or a
\* "/" before them and the end of the path or a "/" after them.
HasParentSegment(p) ==
    \E i \in 1..Len(p) :
        /\ i + 1 <= Len(p)
        /\ p[i] = "." /\ p[i + 1] = "."
        /\ (i = 1 \/ p[i - 1] = "/")
        /\ (i + 1 = Len(p) \/ p[i + 2] = "/")

\* C29: validateConfig() succeeds exactly when the name is not empty, the
\* port is in 1..65535 and no segment of the root path is ".."; and no
\* step of it changes a manager, the map or the operating system.
C29_ValidateConfigExact ==
    /\ [](\A t \in Threads :
            (op[t] = "validateConfig" /\ pc[t] = "ret") =>
                LET c == config_[tj[t]] IN
                (ret[t] = Returned(TRUE)) <=>
                    /\ c.name # ""
                    /\ c.port \in MinPort..MaxPort
                    /\ ~HasParentSegment(c.root_path))
    /\ [][\A t \in Threads :
            (op'[t] = "validateConfig" /\ pc'[t] # pc[t]) =>
                UNCHANGED <<jailVars, osVars>>]_vars
\* The last n records of a list.
LastRecords(ms, n) == SubSeq(ms, Len(ms) - n + 1, Len(ms))

\* C30: start() goes through its steps in order with the status STARTING:
\* before the mount step nothing is recorded or forked, after it the four
\* records are in the list, after the fork a pid is tracked; the status
\* becomes RUNNING only from STARTING, in the step after the init script,
\* with the four records last in the list and a pid tracked, and that is
\* the step, and the only one, that sets the start time, to the time it is
\* taken at.
C30_StartOrder ==
    /\ [](\A t \in Threads :
            LET j == tj[t] IN
            /\ pc[t] \in {"start_mount", "start_sshd", "start_init"} =>
                  status_[j] = "STARTING" /\ start_time_[j] = pre[t].start
            /\ pc[t] = "start_mount" =>
                  /\ active_mounts_[j] = pre[t].mounts
                  /\ sshd_pid_[j] = pre[t].pid
            /\ pc[t] = "start_sshd" =>
                  /\ active_mounts_[j] = pre[t].mounts \o FixedMounts(j)
                  /\ sshd_pid_[j] = pre[t].pid
            /\ pc[t] = "start_init" =>
                  /\ active_mounts_[j] = pre[t].mounts \o FixedMounts(j)
                  /\ sshd_pid_[j] > 0
                  /\ sshd_pid_[j] \in alive)
    /\ [][\A j \in Names :
            (status_'[j] = "RUNNING" /\ status_[j] # "RUNNING") =>
                /\ status_[j] = "STARTING"
                /\ \E t \in Threads : tj[t] = j /\ pc[t] = "start_init"
                /\ Len(active_mounts_[j]) >= NumFixed
                /\ LastRecords(active_mounts_[j], NumFixed) = FixedMounts(j)
                /\ sshd_pid_[j] > 0
                /\ start_time_'[j] = Now
                /\ UNCHANGED <<active_mounts_, sshd_pid_>>]_vars
    /\ [][\A j \in Names :
            start_time_'[j] # start_time_[j] =>
                (status_'[j] = "RUNNING" /\ status_[j] = "STARTING")]_vars

\* C30's case: start() of a STOPPED jail has returned true at a time later
\* than the jail's construction: the jail is RUNNING with its four mounts,
\* its process and the start time of this call.
C30_Witness ==
    \E t \in Threads :
        /\ Returning(t, "start")
        /\ ret[t] = TRUE
        /\ pre[t].status = "STOPPED"
        /\ status_[tj[t]] = "RUNNING"
        /\ active_mounts_[tj[t]] = FixedMounts(tj[t])
        /\ sshd_pid_[tj[t]] \in alive
        /\ start_time_[tj[t]] > pre[t].start
\* C31: stop() goes through its steps in order with the status STOPPING:
\* no umount() is called before the service process was waited for and its
\* pid cleared; and no step is skipped: when a stop() that found the jail
\* not STOPPED returns, whatever failed in it, an umount() was called on
\* every record the list held.
C31_StopOrder ==
    \A t \in Threads :
        LET j == tj[t] IN
        op[t] = "stop" =>
            /\ pc[t] \in {"stop_sshd", "stop_cleanup", "stop_unmount",
                           "stop_finish"} => status_[j] = "STOPPING"
            /\ pc[t] \in {"stop_check", "stop_sshd", "stop_cleanup"} =>
                  umount_log[j] = <<>>
            /\ pc[t] \in {"stop_cleanup", "stop_unmount", "stop_finish"} =>
                  /\ sshd_pid_[j] = NoPid
                  /\ pre[t].pid \notin alive
            /\ (pc[t] = "unlock" /\ pre[t].status # "STOPPED") =>
                  /\ pre[t].pid \notin alive
                  /\ umount_log[j] = ReverseTargets(pre[t].mounts)
\* C32: a start() in which a mount() call failed returns false with the
\* status ERROR; and when a start() leaves the jail RUNNING, a filesystem
\* is mounted on each of the jail's four targets.
C32_MountFailureFailsStart ==
    \A t \in Threads :
        (Returning(t, "start") /\ pre[t].status # "RUNNING") =>
            /\ os_fail[t] => (ret[t] = FALSE /\ status_[tj[t]] = "ERROR")
            /\ status_[tj[t]] = "RUNNING" => JailTargets(tj[t]) \subseteq kmounts
\* The targets of the mounts the configuration of jail j asks for, under
\* the jail's root, in the configuration's order.
ConfigTargets(j) ==
    [i \in 1..Len(config_[j].mounts) |->
        Append(JailPath(j), config_[j].mounts[i].target)]

\* The targets of the records of a list, in its order.
Targets(ms) == [i \in 1..Len(ms) |-> ms[i].target]

\* C33: when start() of a STOPPED jail has returned true, the active
\* mounts hold a record for each of the four fixed targets and, apart from
\* these, one record for every mount of the configuration, in the
\* configuration's order; and every recorded target is under the jail's
\* root.
C33_ConfiguredMountsRecorded ==
    \A t \in Threads :
        (Returning(t, "start") /\ ret[t] = TRUE /\ pre[t].status = "STOPPED")
        =>  LET j == tj[t]
                ms == active_mounts_[j]
                others == SelectSeq(ms, LAMBDA r : r.target \notin JailTargets(j))
            IN /\ \A x \in JailTargets(j) : \E i \in 1..Len(ms) : ms[i].target = x
               /\ Targets(others) = ConfigTargets(j)
               /\ \A i \in 1..Len(ms) :
                     /\ Len(ms[i].target) > Len(JailPath(j))
                     /\ SubSeq(ms[i].target, 1, Len(JailPath(j))) = JailPath(j)
\* unmountAll's progress: the records not yet done with, three attempts
\* each, and the attempts left on the record under the iterator.
UnmountMeasure(t) == UmountRetries * um_it[t] + um_retries[t]

\* A thread is in the loop of unmountAll.
Unmounting(t) == pc[t] \in {"stop_unmount", "destroy_unmounting"}

\* C34: unmountAll calls umount() at least once and at most three times
\* on each record: a record that was called on saw at most three EBUSY
\* results, and at most two if its last call returned 0; a call is repeated
\* on a record only after EBUSY, and the iterator moves on after a call
\* that returned 0; every step of the loop brings it nearer to its end;
\* and when the loop of stop() is done, every record was called on and the
\* list is empty.
C34_UnmountAttemptsBounded ==
    /\ [](\A j \in Names : \A i \in 1..Len(umount_res[j]) :
            /\ umount_res[j][i].busy \in 0..UmountRetries
            /\ umount_res[j][i].ok => umount_res[j][i].busy < UmountRetries)
    /\ [](\A t \in Threads :
            Unmounting(t) =>
                /\ um_retries[t] \in 1..UmountRetries
                /\ Len(umount_log[tj[t]]) = Len(umount_res[tj[t]])
                /\ Len(umount_res[tj[t]]) <= Len(active_mounts_[tj[t]]))
    /\ [](\A t \in Threads :
            pc[t] = "stop_finish" =>
                /\ Len(umount_res[tj[t]]) = Len(pre[t].mounts)
                /\ active_mounts_[tj[t]] = <<>>)
    /\ [][\A t \in Threads :
            (Unmounting(t) /\ <<pc[t], um_it[t], um_retries[t]>>
                                # <<pc'[t], um_it'[t], um_retries'[t]>>) =>
                LET j == tj[t]
                    res == umount_res'[j]
                IN /\ UnmountMeasure(t)' < UnmountMeasure(t)
                   /\ (pc'[t] = pc[t] /\ um_it'[t] = um_it[t]) =>
                         /\ res[Len(res)].busy = UmountRetries - um_retries'[t]
                         /\ ~res[Len(res)].ok
                   /\ (pc'[t] = pc[t] /\ res[Len(res)].ok) =>
                         um_it'[t] = um_it[t] - 1]_vars

\* C34's case: the loop of stop() on a RUNNING jail is done; umount()
\* reported EBUSY three times on one record, which stays mounted, and
\* returned 0 at once on the others.
C34_Witness ==
    \E t \in Threads :
        LET res == umount_res[tj[t]] IN
        /\ pc[t] = "stop_finish"
        /\ pre[t].status = "RUNNING"
        /\ Len(res) = NumFixed
        /\ \E i \in 1..Len(res) :
              /\ res[i].busy = UmountRetries /\ ~res[i].ok
              /\ umount_log[tj[t]][i] \in kmounts
              /\ \A k \in 1..Len(res) \ {i} : res[k].busy = 0 /\ res[k].ok
\* The pairs of names in ascending order (std::less<std::string>).
NameLess == {<<"a", "b">>}

\* The sequence ns holds exactly the names of the set S, each once, in
\* ascending order.
EnumeratesAscending(ns, S) ==
    /\ {ns[i] : i \in 1..Len(ns)} = S
    /\ Len(ns) = Cardinality(S)
    /\ \A i, k \in 1..Len(ns) : i < k => <<ns[i], ns[k]>> \in NameLess

\* C35: what listJails() returns, and the names of what
\* getAllRuntimeInfo() returns, are the names the map holds, each once, in
\* ascending order, whatever the order they were added and removed in.
C35_EnumerationInNameOrder ==
    \A t \in Threads :
        pc[t] = "pool_unlock" =>
            /\ op[t] = "listJails" => EnumeratesAscending(ret[t], jails_)
            /\ op[t] = "getAllRuntimeInfo" =>
                  EnumeratesAscending([i \in 1..Len(ret[t]) |-> ret[t][i].name],
                                      jails_)

\* C35's case: getAllRuntimeInfo() returns the infos of "a" and "b", in
\* that order, after "a" was removed and added again (its manager is a
\* new one, STOPPED and never started, not the RUNNING one the pool held
\* at first).
C35_Witness ==
    \E t \in Threads :
        /\ op[t] = "getAllRuntimeInfo"
        /\ pc[t] = "pool_unlock"
        /\ Len(ret[t]) = 2
        /\ ret[t][1].name = "a" /\ ret[t][2].name = "b"
        /\ ret[t][1].status = "STOPPED" /\ ret[t][1].start_time = 0

\* C36: a thread that is inside a method of a manager it got from getJail
\* is inside a manager the pool still holds: removeEnvironment never deletes
\* a manager while another thread runs one of its methods.
C36_HandleUsedOnLiveManager ==
    \A t \in Threads :
        (op[t] \in ManagerOps /\ pc[t] \notin {"idle", "off", "crashed"})
            => tj[t] \in jails_

\* C37: the active-mounts list of a jail never holds two records with the
\* same target, whatever start(), stop() and destroy() calls were made.
C37_TargetsRecordedOnce ==
    \A j \in Names :
        \A i, k \in 1..Len(active_mounts_[j]) :
            active_mounts_[j][i].target = active_mounts_[j][k].target => i = k

\* C38: the tracked pid of a jail is never replaced while it names a
\* service process that was not waited for: a step that changes sshd_pid_
\* from the pid of a live process is the step that reaps that process, so
\* each jail has at most one live service process, the tracked one.
C38_TrackedPidNotOverwritten ==
    [][\A j \in Names :
          (sshd_pid_[j] \in alive /\ sshd_pid_'[j] # sshd_pid_[j])
              => sshd_pid_[j] \notin alive']_vars

\* Thread t owns the mutex of some manager.
HoldsJailLock(t) == \E j \in Names : mutex_[j] = t

\* Thread t is blocked in a lock_guard's constructor on a mutex that thread
\* u owns: the pool's, the manager's in the stop() of removeEnvironment, or
\* the manager's in the getRuntimeInfo() of getAllRuntimeInfo.
WaitsFor(t, u) ==
    \/ pc[t] = "pool_lock" /\ pool_mutex_ = u
    \/ pc[t] = "stop_lock" /\ mutex_[tj[t]] = u
    \/ /\ pc[t] = "all_next"
       /\ Len(ret[t]) < Len(InOrder(jails_))
       /\ mutex_[InOrder(jails_)[Len(ret[t]) + 1]] = u

\* C39: the pool's mutex is taken before a manager's, never after: no
\* thread that owns a manager's mutex requests the pool's mutex, and no
\* thread waits for a mutex it owns itself or that is owned by a thread
\* waiting for a mutex of the first (no circular wait).
C39_LockOrderAcyclic ==
    \A t \in Threads :
        /\ pc[t] = "pool_lock" => ~HoldsJailLock(t)
        /\ \A u \in Threads : ~(WaitsFor(t, u) /\ WaitsFor(u, t))

\* A thread that owns the pool's mutex waits, in the stop() of
\* removeEnvironment, for the mutex of a manager another thread is inside.
C39_Witness ==
    \E t \in Threads : \E u \in Threads \ {t} :
        /\ pool_mutex_ = t
        /\ pc[t] = "stop_lock"
        /\ mutex_[tj[t]] = u
        /\ op[u] \in LockedOps

====
